---- MODULE Spec2Model ----
(***************************************************************************)
(* tracklite: the four tables (receipts, labtests, reports, invoices), the *)
(* CRUD routers that write them and the owner router's track_shipment,     *)
(* which resolves one query string to a chain and derives its timeline.    *)
(*                                                                         *)
(* Strings that can be compared with a query (ids, courier AWBs, invoice   *)
(* numbers) are tuples; SQL NULL / None of such a column is the empty      *)
(* tuple.  An Optional value of any other type is a set with at most one   *)
(* element.  A table is the set of its rows.                               *)
(***************************************************************************)
EXTENDS Integers, Sequences, FiniteSets, TLC

VARIABLES receipts, labtests, reports, invoices, now, call, seen, result,
          otp_storage, otp_history, creating

tables == <<receipts, labtests, reports, invoices>>
\* The state of the other requests: the one-time codes of security.py and the
\* create_invoice calls in flight.
others == <<otp_storage, otp_history, creating>>
vars == <<receipts, labtests, reports, invoices, now, call, seen, result,
          otp_storage, otp_history, creating>>

\* The logical clock ticks once per committed write and stops at MaxTime.
MaxTime == 5
\* Rows a table holds at most.
MaxRows == 2
\* The last tick of the clock when requests run concurrently.
MaxConcTime == 2

NULL == <<>>
NoneStr == "None"

Only(s) == CHOOSE x \in s : TRUE

-----------------------------------------------------------------------------
(* Enumerations of the models, and the values the requests are drawn from. *)

TestStatus == {"QUEUED", "IN_PROGRESS", "COMPLETED", "FAILED", "NEEDS_RETEST", "ON_HOLD"}
FinalStatus == {"DRAFT", "READY_FOR_APPROVAL", "APPROVED", "REJECTED"}
CommunicationStatus == {"PENDING", "DISPATCHED", "DELIVERED"}
InvoiceStatus == {"DRAFT", "ISSUED", "SENT", "PAID", "CANCELLED"}

\* The values the requests of the model carry: every value of every enumeration
\* is carried by the create or by the update request of its table.
CreateTestStatusInputs == {"QUEUED", "IN_PROGRESS", "COMPLETED"}
UpdateTestStatusInputs == {"COMPLETED", "FAILED", "NEEDS_RETEST", "ON_HOLD"}
CreateFinalStatusInputs == {"DRAFT", "APPROVED"}
CreateCommStatusInputs == {"PENDING", "DISPATCHED"}
\* What a request carries for approved_by: nothing, or a name.
CreateApprovedByInputs == {{}, {<<"Dr. Admin">>}}
\* Requests served one after the other leave approved_by to approve_report.
SerialApprovedByInputs == {{}}
ApproveInputs == {<<"Dr. Admin">>}
CreateInvoiceStatusInputs == {"DRAFT", "SENT", "PAID"}
UpdateInvoiceStatusInputs == {"ISSUED", "PAID", "CANCELLED"}
UpdateAmountInputs == {"350.00"}

-----------------------------------------------------------------------------
(* Invoice numbers: "INV-{year}-{sequence:04d}" of one year, kept as the   *)
(* tag followed by the decimal digits of the formatted sequence.           *)

RECURSIVE Digits(_)
Digits(n) == IF n < 10 THEN <<n>> ELSE Append(Digits(n \div 10), n % 10)

RECURSIVE ZeroPad(_, _)
ZeroPad(ds, width) == IF Len(ds) >= width THEN ds ELSE ZeroPad(<<0>> \o ds, width)

Format04d(n) == ZeroPad(Digits(n), 4)

RECURSIVE ParseInt(_)
ParseInt(ds) == IF Len(ds) = 0 THEN 0
                ELSE 10 * ParseInt(SubSeq(ds, 1, Len(ds) - 1)) + ds[Len(ds)]

InvoiceNo(sequence) == <<"INV">> \o Format04d(sequence)

\* String order of two digit strings, as ORDER BY invoice_no compares them.
RECURSIVE StrLess(_, _)
StrLess(a, b) ==
    IF Len(b) = 0 THEN FALSE
    ELSE IF Len(a) = 0 THEN TRUE
    ELSE IF a[1] # b[1] THEN a[1] < b[1]
    ELSE StrLess(Tail(a), Tail(b))

generate_invoice_number(invs) ==
    IF invs = {} THEN InvoiceNo(1)
    ELSE LET latest_invoice == CHOOSE i \in invs :
                 \A j \in invs : ~StrLess(Tail(i.invoice_no), Tail(j.invoice_no))
         IN  InvoiceNo(ParseInt(Tail(latest_invoice.invoice_no)) + 1)

-----------------------------------------------------------------------------
(* Request inputs.                                                         *)

AwbInputs == {NULL, InvoiceNo(1)}
UnknownQuery == <<"UNKNOWN">>

Identifiers ==
    {r.id : r \in receipts} \cup {l.id : l \in labtests}
    \cup {p.id : p \in reports} \cup {i.id : i \in invoices}
    \cup {r.courier_awb : r \in receipts} \cup {i.invoice_no : i \in invoices}
    \cup {l.receipt_id : l \in labtests}

Queries == (Identifiers \cup {UnknownQuery}) \ {NULL}

-----------------------------------------------------------------------------
(* State after init_db: empty tables, no request in flight.                *)

NoChain == [receipt |-> {}, labtest |-> {}, report |-> {}, invoice |-> {}]

NoCall == [pc |-> "idle", query |-> NULL,
           receipt |-> {}, labtest |-> {}, report |-> {}, invoice |-> {}]

NoResponse == [status |-> "none", query |-> NULL, found |-> FALSE, type |-> NoneStr,
               id |-> NULL, current_step |-> NoneStr, timeline |-> <<>>,
               documents |-> <<>>, chain |-> NoChain]

\* The keys one-time codes are stored under.
Phones == {"+15550001", "+15550002"}

\* otp_storage = {}: no key has a code.
NoOtp == [phone \in Phones |-> {}]

\* What the callers have seen for a key since its last store_otp: the code that
\* was stored, how often verify_otp returned true and how many codes other than
\* the stored one were submitted.
NoHistory == [phone \in Phones |-> [code |-> NoneStr, granted |-> 0, wrong |-> 0]]

\* The clients that may have a create_invoice request in flight.
Callers == {1, 2}

\* The locals of a create_invoice call: where it is, what it was asked, the
\* number it generated and what it answered.
NoCreate == [pc |-> "idle", report_id |-> NULL, status |-> NoneStr,
             invoice_no |-> NULL, response |-> NoneStr]

Init ==
    /\ otp_storage = NoOtp
    /\ otp_history = NoHistory
    /\ creating = [c \in Callers |-> NoCreate]
    /\ receipts = {}
    /\ labtests = {}
    /\ reports = {}
    /\ invoices = {}
    /\ now = 0
    /\ call = NoCall
    /\ seen = {}
    /\ result = NoResponse

\* State after initialize_demo_data, with the second chain of its data alone:
\* every row is written in one transaction, at time 0.
DemoReceipt ==
    [id |-> <<"receipt", 0>>, courier_awb |-> <<"AWB123456789">>,
     forward_to_central |-> TRUE, created_at |-> 0]

DemoLabTest ==
    [id |-> <<"labtest", 0>>, receipt_id |-> DemoReceipt.id,
     test_status |-> "COMPLETED", created_at |-> 0, updated_at |-> 0]

DemoReport ==
    [id |-> <<"report", 0>>, labtest_id |-> DemoLabTest.id, final_status |-> "APPROVED",
     approved_by |-> <<"Dr. Admin">>, comm_status |-> "DISPATCHED",
     created_at |-> 0, updated_at |-> 0]

DemoInvoice ==
    [id |-> <<"invoice", 0>>, report_id |-> DemoReport.id, invoice_no |-> InvoiceNo(2),
     status |-> "SENT", paid_at |-> {}, created_at |-> 0, updated_at |-> 0]

initialize_demo_data ==
    /\ otp_storage = NoOtp
    /\ otp_history = NoHistory
    /\ creating = [c \in Callers |-> NoCreate]
    /\ receipts = {DemoReceipt}
    /\ labtests = {DemoLabTest}
    /\ reports = {DemoReport}
    /\ invoices = {DemoInvoice}
    /\ now = 0
    /\ call = NoCall
    /\ seen = {}
    /\ result = NoResponse

-----------------------------------------------------------------------------
(* The CRUD routers.  A request that is answered 4xx/5xx writes nothing    *)
(* and is not a step.  Every commit ticks the clock; created_at and        *)
(* updated_at take the new time (server_default / onupdate).               *)

Committed ==
    /\ now < MaxTime
    /\ now' = now + 1
    /\ result = NoResponse
    /\ UNCHANGED result

create_receipt(awb_no, forward_to_chennai) ==
    /\ Cardinality(receipts) < MaxRows
    /\ Committed
    /\ receipts' = receipts \cup
           {[id |-> <<"receipt", now'>>, courier_awb |-> awb_no,
             forward_to_central |-> forward_to_chennai, created_at |-> now']}
    /\ UNCHANGED <<labtests, reports, invoices>>

delete_receipt(receipt_id) ==
    /\ \E r \in receipts : r.id = receipt_id
    /\ Committed
    /\ receipts' = {r \in receipts : r.id # receipt_id}
    /\ UNCHANGED <<labtests, reports, invoices>>

create_lab_test(receipt_id, test_status) ==
    /\ Cardinality(labtests) < MaxRows
    /\ \E r \in receipts : r.id = receipt_id
    /\ Committed
    /\ labtests' = labtests \cup
           {[id |-> <<"labtest", now'>>, receipt_id |-> receipt_id,
             test_status |-> test_status, created_at |-> now', updated_at |-> now']}
    /\ UNCHANGED <<receipts, reports, invoices>>

update_lab_test(labtest_id, test_status) ==
    /\ \E l \in labtests : l.id = labtest_id
    /\ Committed
    /\ labtests' = {IF l.id = labtest_id
                    THEN [l EXCEPT !.test_status = test_status, !.updated_at = now']
                    ELSE l : l \in labtests}
    /\ UNCHANGED <<receipts, reports, invoices>>

\* The validator of approved_by in ReportBase and in ReportUpdate.  values holds
\* the final_status validated before it ({} when the request has none);
\* approved_by holds the value the request carries and is empty when the request
\* leaves the field out: the validator does not run on a default.
validate_approved_by(approved_by, values) ==
    \A v \in approved_by : ~ (values = {"APPROVED"} /\ v \in {NULL, <<"">>})

\* approved_by is the set of the value the request carries: empty when the
\* request leaves the field to its default None.
create_report(labtest_id, final_status, comm_status, approved_by) ==
    /\ Cardinality(reports) < MaxRows
    /\ validate_approved_by(approved_by, {final_status})
    /\ \E l \in labtests : l.id = labtest_id
    /\ Committed
    /\ reports' = reports \cup
           {[id |-> <<"report", now'>>, labtest_id |-> labtest_id,
             final_status |-> final_status,
             approved_by |-> IF approved_by = {} THEN NULL ELSE Only(approved_by),
             comm_status |-> comm_status,
             created_at |-> now', updated_at |-> now']}
    /\ UNCHANGED <<receipts, labtests, invoices>>

\* update_data holds the fields the request set (exclude_unset).
update_report(report_id, update_data) ==
    /\ validate_approved_by(
           IF "approved_by" \in DOMAIN update_data THEN {update_data["approved_by"]} ELSE {},
           IF "final_status" \in DOMAIN update_data THEN {update_data["final_status"]} ELSE {})
    /\ \E p \in reports : p.id = report_id
    /\ Committed
    /\ reports' = {IF p.id = report_id
                   THEN [f \in DOMAIN p |->
                           IF f \in DOMAIN update_data THEN update_data[f]
                           ELSE IF f = "updated_at" THEN now' ELSE p[f]]
                   ELSE p : p \in reports}
    /\ UNCHANGED <<receipts, labtests, invoices>>

approve_report(report_id, approved_by) ==
    /\ \E p \in reports : p.id = report_id
    /\ Committed
    /\ reports' = {IF p.id = report_id
                   THEN [p EXCEPT !.final_status = "APPROVED",
                                  !.approved_by = approved_by, !.updated_at = now']
                   ELSE p : p \in reports}
    /\ UNCHANGED <<receipts, labtests, invoices>>

\* create_invoice without the check of the report's final_status.
create_invoice_unapproved(report_id, status) ==
    /\ Cardinality(invoices) < MaxRows
    /\ \E p \in reports : p.id = report_id
    /\ ~ \E i \in invoices : i.report_id = report_id
    /\ LET invoice_no == generate_invoice_number(invoices)
       IN  /\ ~ \E i \in invoices : i.invoice_no = invoice_no
           /\ Committed
           /\ invoices' = invoices \cup
                  {[id |-> <<"invoice", now'>>, report_id |-> report_id,
                    invoice_no |-> invoice_no, status |-> status, paid_at |-> {},
                    created_at |-> now', updated_at |-> now']}
    /\ UNCHANGED <<receipts, labtests, reports>>

create_invoice(report_id, status) ==
    /\ Cardinality(invoices) < MaxRows
    /\ \E p \in reports : p.id = report_id /\ p.final_status = "APPROVED"
    /\ ~ \E i \in invoices : i.report_id = report_id
    /\ LET invoice_no == generate_invoice_number(invoices)
       IN  /\ ~ \E i \in invoices : i.invoice_no = invoice_no
           /\ Committed
           /\ invoices' = invoices \cup
                  {[id |-> <<"invoice", now'>>, report_id |-> report_id,
                    invoice_no |-> invoice_no, status |-> status, paid_at |-> {},
                    created_at |-> now', updated_at |-> now']}
    /\ UNCHANGED <<receipts, labtests, reports>>

\* update_data holds the fields the request set (exclude_unset): status, or
\* amount alone.  The amount is read by no operation here and is not kept in
\* the row; changing it moves updated_at.
update_invoice(invoice_id, update_data) ==
    /\ \E i \in invoices : i.id = invoice_id
    /\ Committed
    /\ invoices' = {IF i.id = invoice_id
                    THEN [i EXCEPT !.status = IF "status" \in DOMAIN update_data
                                             THEN update_data["status"] ELSE @,
                                   !.paid_at = IF "status" \notin DOMAIN update_data THEN @
                                               ELSE IF update_data["status"] = "PAID"
                                                    THEN {now'} ELSE {},
                                   !.updated_at = now']
                    ELSE i : i \in invoices}
    /\ UNCHANGED <<receipts, labtests, reports>>

-----------------------------------------------------------------------------
(* track_shipment.  Its local variables receipt, labtest, report, invoice  *)
(* are Optional rows; pc names the next statement.  db is the content of   *)
(* the four tables at the moment a statement is executed.                  *)

DB == [receipts |-> receipts, labtests |-> labtests,
       reports |-> reports, invoices |-> invoices]

TIMELINE_STEPS ==
    <<"received", "forwarded", "central", "lab_queued", "in_progress", "completed",
      "report_ready", "approved", "communicated", "invoiced", "paid">>

\* list.index
StepIndex(step) == CHOOSE k \in 1..Len(TIMELINE_STEPS) : TIMELINE_STEPS[k] = step

\* The searches with the invoice number tried before the AWB.
ProbesInvoiceNumberFirst ==
    <<"by_invoice_no", "by_awb", "by_receipt_id", "by_labtest_id", "by_report_id",
      "by_invoice_id">>

\* The order in which the identifier searches are written.
Probes ==
    <<"by_awb", "by_receipt_id", "by_labtest_id", "by_report_id",
      "by_invoice_no", "by_invoice_id">>

StartCall(query) ==
    [pc |-> Probes[1], query |-> query,
     receipt |-> {}, labtest |-> {}, report |-> {}, invoice |-> {}]

AfterProbe(pc) ==
    LET k == CHOOSE n \in 1..Len(Probes) : Probes[n] = pc
    IN  IF k < Len(Probes) THEN Probes[k + 1] ELSE "resolved"

\* selectinload of the many-to-one relationships.
ReceiptOf(labtest, db) ==
    IF labtest = {} THEN {}
    ELSE {r \in db.receipts : r.id = Only(labtest).receipt_id}

LabTestOf(report, db) ==
    IF report = {} THEN {}
    ELSE {l \in db.labtests : l.id = Only(report).labtest_id}

ReportOf(invoice, db) ==
    IF invoice = {} THEN {}
    ELSE {p \in db.reports : p.id = Only(invoice).report_id}

\* The rows the select of the statement at loc.pc returns.
Selected(loc, db) ==
    CASE loc.pc = "by_awb" -> {r \in db.receipts : r.courier_awb = loc.query}
      [] loc.pc = "by_receipt_id" -> {r \in db.receipts : r.id = loc.query}
      [] loc.pc = "by_labtest_id" -> {l \in db.labtests : l.id = loc.query}
      [] loc.pc = "by_report_id" -> {p \in db.reports : p.id = loc.query}
      [] loc.pc = "by_invoice_no" -> {i \in db.invoices : i.invoice_no = loc.query}
      [] loc.pc = "by_invoice_id" -> {i \in db.invoices : i.id = loc.query}
      [] loc.pc = "load_labtest" ->
             {l \in db.labtests : l.receipt_id = Only(loc.receipt).id}
      [] loc.pc = "load_report" ->
             {p \in db.reports : p.labtest_id = Only(loc.labtest).id}
      [] loc.pc = "load_invoice" ->
             {i \in db.invoices : i.report_id = Only(loc.report).id}
      [] OTHER -> {}

\* Whether the statement at loc.pc executes its select (an await), from the
\* "if not ...:" that guards it.
Reads(loc) ==
    CASE loc.pc \in {"by_awb", "by_receipt_id", "by_labtest_id", "by_report_id",
                     "by_invoice_no"} -> loc.receipt = {}
      [] loc.pc = "by_invoice_id" -> loc.receipt = {} /\ loc.invoice = {}
      [] loc.pc = "load_labtest" -> loc.labtest = {}
      [] loc.pc = "load_report" -> loc.report = {} /\ loc.labtest # {}
      [] loc.pc = "load_invoice" -> loc.invoice = {} /\ loc.report # {}
      [] OTHER -> FALSE

\* The statement that follows the one at loc.pc when that one assigns nothing.
Skip(loc) ==
    CASE loc.pc \in {Probes[k] : k \in 1..Len(Probes)} ->
             [loc EXCEPT !.pc = AfterProbe(loc.pc)]
      [] loc.pc = "resolved" ->
             [loc EXCEPT !.pc = IF loc.receipt = {} THEN "done" ELSE "load_labtest"]
      [] loc.pc = "load_labtest" -> [loc EXCEPT !.pc = "load_report"]
      [] loc.pc = "load_report" -> [loc EXCEPT !.pc = "load_invoice"]
      [] loc.pc = "load_invoice" -> [loc EXCEPT !.pc = "done"]
      [] OTHER -> loc

\* What the statement at loc.pc assigns from the row scalar_one_or_none gave.
Assign(loc, rows, db) ==
    CASE loc.pc \in {"by_awb", "by_receipt_id"} -> [loc EXCEPT !.receipt = rows]
      [] loc.pc = "by_labtest_id" ->
             [loc EXCEPT !.labtest = rows,
                         !.receipt = IF rows # {} THEN ReceiptOf(rows, db) ELSE @]
      [] loc.pc = "by_report_id" ->
             [loc EXCEPT !.report = rows,
                         !.labtest = IF rows # {} THEN LabTestOf(rows, db) ELSE @,
                         !.receipt = IF rows # {}
                                     THEN ReceiptOf(LabTestOf(rows, db), db) ELSE @]
      [] loc.pc \in {"by_invoice_no", "by_invoice_id"} ->
             [loc EXCEPT !.invoice = rows,
                         !.report = IF rows # {} THEN ReportOf(rows, db) ELSE @,
                         !.labtest = IF rows # {}
                                     THEN LabTestOf(ReportOf(rows, db), db) ELSE @,
                         !.receipt = IF rows # {}
                                     THEN ReceiptOf(LabTestOf(ReportOf(rows, db), db), db)
                                     ELSE @]
      [] loc.pc = "load_labtest" -> [loc EXCEPT !.labtest = rows]
      [] loc.pc = "load_report" -> [loc EXCEPT !.report = rows]
      [] loc.pc = "load_invoice" -> [loc EXCEPT !.invoice = rows]
      [] OTHER -> loc

\* Result.scalar_one_or_none: the row, None, or MultipleResultsFound.
scalar_one_or_none(loc, rows, db) ==
    IF Cardinality(rows) > 1 THEN [loc EXCEPT !.pc = "raise"]
    ELSE Skip(Assign(loc, rows, db))

\* One statement of track_shipment, executed on db.
Step(loc, db) ==
    IF Reads(loc) THEN scalar_one_or_none(loc, Selected(loc, db), db) ELSE Skip(loc)

Ended(loc) == loc.pc \in {"done", "raise"}

\* The statements up to, not including, the next select.
RECURSIVE ToNextRead(_)
ToNextRead(loc) ==
    IF Ended(loc) \/ Reads(loc) THEN loc ELSE ToNextRead(Skip(loc))

\* A whole call on one content of the tables.
RECURSIVE Run(_, _)
Run(loc, db) == IF Ended(loc) THEN loc ELSE Run(Step(loc, db), db)

-----------------------------------------------------------------------------
(* The timeline and the documents of an assembled chain.                   *)

TimelineStep(step, status, timestamp) ==
    [step |-> step, status |-> status, timestamp |-> timestamp]

\* forwarded appended without looking at forward_to_central.
ReceiptStagesAlwaysForwarded(receipt) ==
    <<TimelineStep("received", "completed", {receipt.created_at}),
      TimelineStep("forwarded", "completed", {receipt.created_at})>>

\* central appended as completed for a forwarded receipt.
ReceiptStagesWithCentral(receipt) ==
    <<TimelineStep("received", "completed", {receipt.created_at})>>
    \o (IF receipt.forward_to_central
        THEN <<TimelineStep("forwarded", "completed", {receipt.created_at}),
               TimelineStep("central", "completed", {receipt.created_at})>>
        ELSE <<>>)

ReceiptStages(receipt) ==
    <<TimelineStep("received", "completed", {receipt.created_at})>>
    \o (IF receipt.forward_to_central
        THEN <<TimelineStep("forwarded", "completed", {receipt.created_at})>>
        ELSE <<>>)

\* completed appended under the condition of in_progress.
LabStagesCompletedEarly(labtest) ==
    <<TimelineStep("lab_queued", "completed", {labtest.created_at})>>
    \o (IF labtest.test_status \in {"IN_PROGRESS", "COMPLETED"}
        THEN <<TimelineStep("in_progress", "completed", {labtest.updated_at}),
               TimelineStep("completed", "completed", {labtest.updated_at})>>
        ELSE <<>>)

LabStages(labtest) ==
    <<TimelineStep("lab_queued", "completed", {labtest.created_at})>>
    \o (IF labtest.test_status \in {"IN_PROGRESS", "COMPLETED"}
        THEN <<TimelineStep("in_progress", "completed", {labtest.updated_at})>>
        ELSE <<>>)
    \o (IF labtest.test_status = "COMPLETED"
        THEN <<TimelineStep("completed", "completed", {labtest.updated_at})>>
        ELSE <<>>)

ReportStages(report) ==
    <<TimelineStep("report_ready", "completed", {report.created_at})>>
    \o (IF report.final_status = "APPROVED"
        THEN <<TimelineStep("approved", "completed", {report.updated_at})>>
             \o (IF report.comm_status \in {"DISPATCHED", "DELIVERED"}
                 THEN <<TimelineStep("communicated", "completed", {report.updated_at})>>
                 ELSE <<>>)
        ELSE <<>>)

\* The paid step stamped with updated_at whether or not paid_at is set.
InvoiceStagesUpdatedAt(invoice) ==
    <<TimelineStep("invoiced", "completed", {invoice.created_at})>>
    \o (IF invoice.status = "PAID"
        THEN <<TimelineStep("paid", "completed", {invoice.updated_at})>>
        ELSE <<>>)

InvoiceStages(invoice) ==
    <<TimelineStep("invoiced", "completed", {invoice.created_at})>>
    \o (IF invoice.status = "PAID"
        THEN <<TimelineStep("paid", "completed",
                            IF invoice.paid_at # {} THEN invoice.paid_at
                            ELSE {invoice.updated_at})>>
        ELSE <<>>)

\* The steps appended before "Add remaining steps as pending".
CompletedStages(loc) ==
    ReceiptStages(Only(loc.receipt))
    \o (IF loc.labtest # {} THEN LabStages(Only(loc.labtest)) ELSE <<>>)
    \o (IF loc.report # {} THEN ReportStages(Only(loc.report)) ELSE <<>>)
    \o (IF loc.invoice # {} THEN InvoiceStages(Only(loc.invoice)) ELSE <<>>)

\* current_step is assigned with every append: it names the last one.
CurrentStep(completed) == completed[Len(completed)].step

\* TIMELINE_STEPS[current_index:], the slice taken one step too early.
PendingStagesFromCurrent(current_step) ==
    LET current_index == StepIndex(current_step)
    IN  [k \in 1..(Len(TIMELINE_STEPS) - current_index + 1) |->
            TimelineStep(TIMELINE_STEPS[current_index + k - 1], "pending", {})]

PendingStages(current_step) ==
    LET current_index == StepIndex(current_step)
    IN  [k \in 1..(Len(TIMELINE_STEPS) - current_index) |->
            TimelineStep(TIMELINE_STEPS[current_index + k], "pending", {})]

\* str.lower on the value of an InvoiceStatus
lower(value) ==
    CASE value = "DRAFT" -> "draft"
      [] value = "ISSUED" -> "issued"
      [] value = "SENT" -> "sent"
      [] value = "PAID" -> "paid"
      [] value = "CANCELLED" -> "cancelled"

\* A report entry for every report, whatever its final_status.
ReportDocumentsAnyStatus(report) ==
    IF report # {}
    THEN <<[type |-> "report", id |-> Only(report).id, status |-> "approved",
            download_available |-> TRUE]>>
    ELSE <<>>

ReportDocuments(report) ==
    IF report # {} /\ Only(report).final_status = "APPROVED"
    THEN <<[type |-> "report", id |-> Only(report).id, status |-> "approved",
            download_available |-> TRUE]>>
    ELSE <<>>

\* An invoice entry for every invoice that is not cancelled.
InvoiceDocumentsExceptCancelled(invoice) ==
    IF invoice # {} /\ Only(invoice).status # "CANCELLED"
    THEN <<[type |-> "invoice", id |-> Only(invoice).id,
            status |-> lower(Only(invoice).status), download_available |-> TRUE]>>
    ELSE <<>>

InvoiceDocuments(invoice) ==
    IF invoice # {} /\ Only(invoice).status \in {"ISSUED", "SENT", "PAID"}
    THEN <<[type |-> "invoice", id |-> Only(invoice).id,
            status |-> lower(Only(invoice).status), download_available |-> TRUE]>>
    ELSE <<>>

\* The invoice entry appended before the report entry.
DocumentsInvoiceFirst(loc) == InvoiceDocuments(loc.invoice) \o ReportDocuments(loc.report)

Documents(loc) == ReportDocuments(loc.report) \o InvoiceDocuments(loc.invoice)

\* The status code download_report answers an authenticated owner with.
download_report(report_id, db) ==
    LET report == {p \in db.reports : p.id = report_id}
    IN  IF report = {} THEN 404
        ELSE IF Only(report).final_status # "APPROVED" THEN 403
        ELSE 200

\* download_invoice refusing every invoice that is not PAID.
download_invoice_paid_only(invoice_id, db) ==
    LET invoice == {i \in db.invoices : i.id = invoice_id}
    IN  IF invoice = {} THEN 404
        ELSE IF Only(invoice).status # "PAID" THEN 403
        ELSE 200

\* The status code download_invoice answers an authenticated owner with.
download_invoice(invoice_id, db) ==
    LET invoice == {i \in db.invoices : i.id = invoice_id}
    IN  IF invoice = {} THEN 404
        ELSE IF Only(invoice).status \notin {"ISSUED", "SENT", "PAID"} THEN 403
        ELSE 200

\* A result whose type is assigned before the "if not receipt" return.
NotFoundTyped(query) ==
    [NoResponse EXCEPT !.status = "ok", !.query = query, !.type = "receipt"]

\* TrackingResult(found=False)
NotFound(query) == [NoResponse EXCEPT !.status = "ok", !.query = query]

\* An exception leaves the handler: the request is answered 500.
ServerError(query) == [NoResponse EXCEPT !.status = "error", !.query = query]

TrackingResult(loc) ==
    LET completed == CompletedStages(loc)
    IN  [status |-> "ok", query |-> loc.query, found |-> TRUE, type |-> "receipt",
         id |-> Only(loc.receipt).id, current_step |-> CurrentStep(completed),
         timeline |-> completed \o PendingStages(CurrentStep(completed)),
         documents |-> Documents(loc),
         chain |-> [receipt |-> loc.receipt, labtest |-> loc.labtest,
                    report |-> loc.report, invoice |-> loc.invoice]]

\* What the caller receives from a call that ended with the locals loc.
Response(loc) ==
    IF loc.pc = "raise" THEN ServerError(loc.query)
    ELSE IF loc.receipt = {} THEN NotFound(loc.query)
    ELSE TrackingResult(loc)

\* A handler that assigns to the receipt it found; get_db commits the session.
track_shipment_assigning(query) ==
    /\ call = NoCall
    /\ result = NoResponse \/ result.query = query
    /\ result' = Response(Run(StartCall(query), DB))
    /\ receipts' = {IF result'.found /\ r.id = result'.id
                    THEN [r EXCEPT !.forward_to_central = TRUE] ELSE r : r \in receipts}
    /\ UNCHANGED <<labtests, reports, invoices, now, call, seen, others>>

\* A handler that answers a repeated query without resolving it again.
track_shipment_once(query) ==
    /\ call = NoCall
    /\ result = NoResponse \/ result.query = query
    /\ result' = IF result = NoResponse THEN Response(Run(StartCall(query), DB))
                 ELSE NotFound(query)
    /\ UNCHANGED <<receipts, labtests, reports, invoices, now, call, seen, others>>

\* The handler run without another request in between.
track_shipment(query) ==
    /\ call = NoCall
    /\ result = NoResponse \/ result.query = query
    /\ result' = Response(Run(StartCall(query), DB))
    /\ UNCHANGED <<receipts, labtests, reports, invoices, now, call, seen, others>>

\* The response has been sent.
Return ==
    /\ result # NoResponse
    /\ result' = NoResponse
    /\ seen' = {}
    /\ UNCHANGED <<receipts, labtests, reports, invoices, now, call, others>>

\* What a call with this query returns when it runs on db alone.
OnSnapshot(query, db) == Response(Run(StartCall(query), db))

\* The handler, one select (one await) at a time: other requests run in between.
\* seen collects what the call would return on each content the tables have
\* while it runs.
track_begin(query) ==
    /\ call = NoCall
    /\ result = NoResponse
    /\ call' = StartCall(query)
    /\ seen' = {OnSnapshot(query, DB)}
    /\ UNCHANGED <<receipts, labtests, reports, invoices, now, result, others>>

track_await ==
    /\ call # NoCall
    /\ LET loc == ToNextRead(Step(call, DB))
       IN  IF Ended(loc)
           THEN call' = NoCall /\ result' = Response(loc)
           ELSE call' = loc /\ UNCHANGED result
    /\ UNCHANGED <<receipts, labtests, reports, invoices, now, seen, others>>

ConcurrentWrite(W) ==
    /\ now < MaxConcTime
    /\ W
    /\ seen' = IF call = NoCall THEN seen ELSE seen \cup {OnSnapshot(call.query, DB')}
    /\ UNCHANGED <<call, others>>

InvoiceUpdates ==
    [{"status"} -> UpdateInvoiceStatusInputs] \cup [{"amount"} -> UpdateAmountInputs]

SerialReportUpdates ==
    [{"final_status"} -> {"READY_FOR_APPROVAL", "REJECTED"}]
    \cup [{"comm_status"} -> {"DELIVERED"}]

ReportUpdates ==
    SerialReportUpdates \cup [{"final_status"} -> {"APPROVED"}]
    \cup [{"approved_by"} -> {NULL}]
    \cup {[final_status |-> "APPROVED", approved_by |-> a] : a \in {NULL, <<"Dr. Admin">>}}

\* A write while no track_shipment call is in flight.
Alone(W) == W /\ UNCHANGED <<call, seen, others>>

Next ==
    \/ \E a \in AwbInputs, f \in BOOLEAN : Alone(create_receipt(a, f))
    \/ \E r \in receipts : Alone(delete_receipt(r.id))
    \/ \E r \in receipts, s \in CreateTestStatusInputs : Alone(create_lab_test(r.id, s))
    \/ \E l \in labtests, s \in UpdateTestStatusInputs : Alone(update_lab_test(l.id, s))
    \/ \E l \in labtests, f \in CreateFinalStatusInputs, c \in CreateCommStatusInputs,
          a \in SerialApprovedByInputs : Alone(create_report(l.id, f, c, a))
    \/ \E p \in reports, u \in SerialReportUpdates : Alone(update_report(p.id, u))
    \/ \E p \in reports, a \in ApproveInputs : Alone(approve_report(p.id, a))
    \/ \E p \in reports, s \in CreateInvoiceStatusInputs : Alone(create_invoice(p.id, s))
    \/ \E i \in invoices, u \in InvoiceUpdates : Alone(update_invoice(i.id, u))
    \/ \E q \in Queries : track_shipment(q)
    \/ Return

\* Requests served one after the other, from the empty tables of init_db.
Spec == Init /\ [][Next]_vars

NextConc ==
    \/ \E a \in AwbInputs, f \in BOOLEAN : ConcurrentWrite(create_receipt(a, f))
    \/ \E r \in receipts : ConcurrentWrite(delete_receipt(r.id))
    \/ \E r \in receipts, s \in CreateTestStatusInputs : ConcurrentWrite(create_lab_test(r.id, s))
    \/ \E l \in labtests, s \in UpdateTestStatusInputs : ConcurrentWrite(update_lab_test(l.id, s))
    \/ \E l \in labtests, f \in CreateFinalStatusInputs, c \in CreateCommStatusInputs,
          a \in CreateApprovedByInputs : ConcurrentWrite(create_report(l.id, f, c, a))
    \/ \E p \in reports, u \in ReportUpdates : ConcurrentWrite(update_report(p.id, u))
    \/ \E p \in reports, a \in ApproveInputs : ConcurrentWrite(approve_report(p.id, a))
    \/ \E p \in reports, s \in CreateInvoiceStatusInputs : ConcurrentWrite(create_invoice(p.id, s))
    \/ \E i \in invoices, u \in InvoiceUpdates : ConcurrentWrite(update_invoice(i.id, u))
    \/ \E q \in Queries : track_begin(q)
    \/ track_await
    \/ Return

\* Requests served concurrently: writes commit between the selects of a
\* track_shipment call.  The tables start with the demo data.
SpecConc == initialize_demo_data /\ [][NextConc]_vars

-----------------------------------------------------------------------------
(* create_invoice, one await at a time: the select of the report, the      *)
(* select of an invoice of the report, the select of                       *)
(* generate_invoice_number and the commit of the insert.  Every call has   *)
(* its own session; other requests commit between its awaits.              *)

ConcurrentReceiptInputs == {NULL}
ConcurrentTestStatusInputs == {"COMPLETED"}
ConcurrentCommStatusInputs == {"PENDING"}
ConcurrentInvoiceStatusInputs == {"DRAFT"}

create_invoice_begin(c, report_id, status) ==
    /\ creating[c].pc = "idle"
    /\ creating' = [creating EXCEPT ![c] =
                       [NoCreate EXCEPT !.pc = "report", !.report_id = report_id,
                                        !.status = status]]
    /\ UNCHANGED <<tables, now, call, seen, result, otp_storage, otp_history>>

\* The locals after the select of the report.
AfterReport(loc) ==
    LET report == {p \in reports : p.id = loc.report_id}
    IN  IF report = {}
        THEN [loc EXCEPT !.pc = "done", !.response = "404 Report not found"]
        ELSE IF Only(report).final_status # "APPROVED"
        THEN [loc EXCEPT !.pc = "done",
                         !.response = "400 Cannot create invoice for report that is not approved"]
        ELSE [loc EXCEPT !.pc = "existing"]

\* The locals after the select of an invoice of the report; scalar_one_or_none
\* raises on several rows.
AfterExisting(loc) ==
    LET existing == {i \in invoices : i.report_id = loc.report_id}
    IN  IF Cardinality(existing) > 1
        THEN [loc EXCEPT !.pc = "done", !.response = "500 MultipleResultsFound"]
        ELSE IF existing # {}
        THEN [loc EXCEPT !.pc = "done",
                         !.response = "400 Invoice already exists for this report"]
        ELSE [loc EXCEPT !.pc = "number"]

\* The locals after generate_invoice_number.
AfterNumber(loc) ==
    [loc EXCEPT !.pc = "commit", !.invoice_no = generate_invoice_number(invoices)]

\* The insert violates the unique index of invoice_no.
IntegrityError(loc) == \E i \in invoices : i.invoice_no = loc.invoice_no

create_invoice_await(c) ==
    LET loc == creating[c]
    IN  /\ loc.pc \in {"report", "existing", "number", "commit"}
        /\ IF loc.pc = "commit" /\ ~ IntegrityError(loc)
           THEN /\ Cardinality(invoices) < MaxRows
                /\ now < MaxTime
                /\ now' = now + 1
                /\ invoices' = invoices \cup
                       {[id |-> <<"invoice", now'>>, report_id |-> loc.report_id,
                         invoice_no |-> loc.invoice_no, status |-> loc.status,
                         paid_at |-> {}, created_at |-> now', updated_at |-> now']}
                /\ creating' = [creating EXCEPT ![c] =
                                   [loc EXCEPT !.pc = "done", !.response = "200"]]
           ELSE /\ creating' = [creating EXCEPT ![c] =
                       CASE loc.pc = "report" -> AfterReport(loc)
                         [] loc.pc = "existing" -> AfterExisting(loc)
                         [] loc.pc = "number" -> AfterNumber(loc)
                         [] OTHER -> [loc EXCEPT !.pc = "done",
                                                 !.response = "500 IntegrityError"]]
                /\ UNCHANGED <<invoices, now>>
        /\ UNCHANGED <<receipts, labtests, reports, call, seen, result,
                       otp_storage, otp_history>>

\* The response is sent; the client may call again.
create_invoice_return(c) ==
    /\ creating[c].pc = "done"
    /\ creating' = [creating EXCEPT ![c] = NoCreate]
    /\ UNCHANGED <<tables, now, call, seen, result, otp_storage, otp_history>>

NextInvoice ==
    \/ \E a \in ConcurrentReceiptInputs : Alone(create_receipt(a, FALSE))
    \/ \E r \in receipts, s \in ConcurrentTestStatusInputs : Alone(create_lab_test(r.id, s))
    \/ \E l \in labtests, f \in CreateFinalStatusInputs, c \in ConcurrentCommStatusInputs,
          a \in SerialApprovedByInputs : Alone(create_report(l.id, f, c, a))
    \/ \E c \in Callers, p \in reports, s \in ConcurrentInvoiceStatusInputs :
           create_invoice_begin(c, p.id, s)
    \/ \E c \in Callers : create_invoice_await(c)
    \/ \E c \in Callers : create_invoice_return(c)

\* create_invoice requests of two clients served concurrently, from the empty
\* tables of init_db.
SpecInvoice == Init /\ [][NextInvoice]_vars

-----------------------------------------------------------------------------
(* The one-time codes of security.py.  store_otp and verify_otp have no    *)
(* await: each call is one step.  The clock counts minutes here.           *)

\* The last minute of the clock while codes are stored and verified.
MaxOtpTime == 6
\* The wrong codes submitted for one key between two store_otp calls.
MaxWrong == 4
\* timedelta(minutes=5)
OtpMinutes == 5

generate_otp_code == "123456"
OtpCodes == {generate_otp_code, "000000"}

\* Some time passes between two requests.
Tick ==
    /\ now < MaxOtpTime
    /\ now' = now + 1
    /\ UNCHANGED <<tables, call, seen, result, others>>

store_otp(phone, code) ==
    /\ otp_storage' = [otp_storage EXCEPT ![phone] =
                           {[code |-> code, expires_at |-> now + OtpMinutes, attempts |-> 0]}]
    /\ otp_history' = [otp_history EXCEPT ![phone] = [code |-> code, granted |-> 0, wrong |-> 0]]
    /\ UNCHANGED <<tables, now, call, seen, result, creating>>

\* The value verify_otp returns.
Verified(phone, code) ==
    LET otp_data == otp_storage[phone]
    IN  /\ otp_data # {}
        /\ ~ (now > Only(otp_data).expires_at)
        /\ ~ (Only(otp_data).attempts >= 3)
        /\ Only(otp_data).code = code

\* What the callers have seen for the key after verify_otp returned ok.
Seen(phone, code, ok) ==
    [otp_history EXCEPT ![phone] =
        [@ EXCEPT !.granted = IF ok THEN @ + 1 ELSE @,
                  !.wrong = IF otp_history[phone].code \notin {NoneStr, code} THEN @ + 1 ELSE @]]

\* verify_otp that keeps the entry of a verified code.
verify_otp_keeping(phone, code) ==
    LET otp_data == otp_storage[phone]
    IN  /\ otp_history[phone].code \notin {NoneStr, code} => otp_history[phone].wrong < MaxWrong
        /\ otp_storage' =
               IF otp_data = {} THEN otp_storage
               ELSE IF now > Only(otp_data).expires_at \/ Only(otp_data).attempts >= 3
               THEN [otp_storage EXCEPT ![phone] = {}]
               ELSE IF Only(otp_data).code # code
               THEN [otp_storage EXCEPT ![phone] =
                        {[Only(otp_data) EXCEPT !.attempts = @ + 1]}]
               ELSE otp_storage
        /\ otp_history' = Seen(phone, code, Verified(phone, code))
        /\ UNCHANGED <<tables, now, call, seen, result, creating>>

verify_otp(phone, code) ==
    LET otp_data == otp_storage[phone]
    IN  /\ otp_history[phone].code \notin {NoneStr, code} => otp_history[phone].wrong < MaxWrong
        /\ otp_storage' =
               IF otp_data = {} THEN otp_storage
               ELSE IF now > Only(otp_data).expires_at
               THEN [otp_storage EXCEPT ![phone] = {}]
               ELSE IF Only(otp_data).attempts >= 3
               THEN [otp_storage EXCEPT ![phone] = {}]
               ELSE IF Only(otp_data).code # code
               THEN [otp_storage EXCEPT ![phone] =
                        {[Only(otp_data) EXCEPT !.attempts = @ + 1]}]
               ELSE [otp_storage EXCEPT ![phone] = {}]
        /\ otp_history' = Seen(phone, code, Verified(phone, code))
        /\ UNCHANGED <<tables, now, call, seen, result, creating>>

NextOtp ==
    \/ \E phone \in Phones : store_otp(phone, generate_otp_code)
    \/ \E phone \in Phones, code \in OtpCodes : verify_otp(phone, code)
    \/ Tick

\* owner_otp_init and owner_otp_verify served while time passes.
SpecOtp == Init /\ [][NextOtp]_vars

-----------------------------------------------------------------------------
(* Properties.  result is the response of the last track_shipment call and *)
(* the tables are as that call read them until Return.                     *)

Answered == result.status = "ok"
Found == result.status = "ok" /\ result.found

\* The rows rule k of the resolution order matches for the query q.
MatchedBy(k, q) ==
    CASE k = 1 -> {r \in receipts : r.courier_awb = q}
      [] k = 2 -> {r \in receipts : r.id = q}
      [] k = 3 -> {l \in labtests : l.id = q}
      [] k = 4 -> {p \in reports : p.id = q}
      [] k = 5 -> {i \in invoices : i.invoice_no = q}
      [] k = 6 -> {i \in invoices : i.id = q}
      [] OTHER -> {}

\* The field of the chain that holds the row rule k matches.
MatchedKind(k) ==
    CASE k \in {1, 2} -> "receipt"
      [] k = 3 -> "labtest"
      [] k = 4 -> "report"
      [] OTHER -> "invoice"

\* The receipts at the root of the rows rule k matches.
RootsOf(k, q) ==
    LET hit == MatchedBy(k, q)
        ps == IF k \in {5, 6} THEN {p \in reports : \E i \in hit : p.id = i.report_id}
              ELSE IF k = 4 THEN hit ELSE {}
        ls == IF k \in {4, 5, 6} THEN {l \in labtests : \E p \in ps : l.id = p.labtest_id}
              ELSE IF k = 3 THEN hit ELSE {}
    IN  IF k \in {1, 2} THEN hit
        ELSE {r \in receipts : \E l \in ls : r.id = l.receipt_id}

\* The lowest-numbered rule that matches q, 0 when none does.
FirstMatch(q) ==
    IF \E k \in 1..6 : MatchedBy(k, q) # {}
    THEN CHOOSE k \in 1..6 : /\ MatchedBy(k, q) # {}
                             /\ \A j \in 1..(k - 1) : MatchedBy(j, q) = {}
    ELSE 0

\* C1: the chain of an answered call is the one reached from the lowest-numbered
\* of the six rules (AWB, receipt id, lab test id, report id, invoice number,
\* invoice id) that matches the query: the call finds a chain exactly when that
\* rule's row has a receipt at its root, the row is in the chain and the chain is
\* rooted at that receipt, even when a higher-numbered rule matches another chain.
C1_LowestProbeWins ==
    Answered =>
        LET k == FirstMatch(result.query)
            roots == RootsOf(k, result.query)
        IN  /\ result.found <=> roots # {}
            /\ result.found =>
                   /\ result.chain.receipt = roots
                   /\ result.id = Only(roots).id
                   /\ result.chain[MatchedKind(k)] = MatchedBy(k, result.query)

\* The query is the AWB of the receipt found and the number of an invoice of
\* another receipt's chain.
C1_AwbBeatsInvoiceNumber ==
    /\ Found
    /\ \E r \in MatchedBy(1, result.query) : r.id = result.id
    /\ RootsOf(5, result.query) # {}
    /\ \A r \in RootsOf(5, result.query) : r.id # result.id

\* C2: a call whose query no rule matches is answered without error, with
\* found false, an empty timeline, no documents, and no type, id or current_step.
C2_NoMatchIsEmptyResult ==
    (result # NoResponse /\ FirstMatch(result.query) = 0) =>
        /\ result.status = "ok"
        /\ result.found = FALSE
        /\ result.timeline = <<>>
        /\ result.documents = <<>>
        /\ result.type = NoneStr
        /\ result.id = NULL
        /\ result.current_step = NoneStr

\* A query that matches nothing was answered while the tables hold chains.
C2_UnknownQueryAnswered ==
    /\ Answered
    /\ result.query = UnknownQuery
    /\ FirstMatch(result.query) = 0
    /\ receipts # {} /\ labtests # {}

StepsOf(timeline, status) ==
    {timeline[k].step : k \in {n \in DOMAIN timeline : timeline[n].status = status}}

PredicateHolds(stage, chain) ==
    CASE stage = "received" -> chain.receipt # {}
      [] stage = "forwarded" ->
             chain.receipt # {} /\ Only(chain.receipt).forward_to_central
      [] stage = "central" -> FALSE
      [] stage = "lab_queued" -> chain.labtest # {}
      [] stage = "in_progress" ->
             chain.labtest # {}
             /\ Only(chain.labtest).test_status \in {"IN_PROGRESS", "COMPLETED"}
      [] stage = "completed" ->
             chain.labtest # {} /\ Only(chain.labtest).test_status = "COMPLETED"
      [] stage = "report_ready" -> chain.report # {}
      [] stage = "approved" ->
             chain.report # {} /\ Only(chain.report).final_status = "APPROVED"
      [] stage = "communicated" ->
             chain.report # {}
             /\ Only(chain.report).comm_status \in {"DISPATCHED", "DELIVERED"}
      [] stage = "invoiced" -> chain.invoice # {}
      [] stage = "paid" -> chain.invoice # {} /\ Only(chain.invoice).status = "PAID"

LastSatisfied(chain) ==
    CHOOSE n \in 1..Len(TIMELINE_STEPS) :
        /\ PredicateHolds(TIMELINE_STEPS[n], chain)
        /\ \A m \in (n + 1)..Len(TIMELINE_STEPS) : ~PredicateHolds(TIMELINE_STEPS[m], chain)

\* C4 as stated: a found result reports at most one current stage, and its
\* current_step is the last of the 11 stages whose condition in the table of
\* stages holds on the chain.
C4_CurrentIsLastSatisfied ==
    Found =>
        /\ Cardinality({k \in DOMAIN result.timeline :
                            result.timeline[k].status = "current"}) <= 1
        /\ result.current_step = TIMELINE_STEPS[LastSatisfied(result.chain)]

\* C5 as stated: the timeline of a found result lists the 11 stages, each once
\* and in the fixed order, the pending ones without a timestamp.
C5_AllStagesOnceInOrder ==
    Found =>
        /\ Len(result.timeline) = Len(TIMELINE_STEPS)
        /\ \A n \in DOMAIN result.timeline :
               /\ result.timeline[n].step = TIMELINE_STEPS[n]
               /\ result.timeline[n].status = "pending" =>
                      result.timeline[n].timestamp = {}

\* C6 as stated: the response of a call whose reads interleave with writes is
\* the response that one content of the tables, among those the tables had
\* while the call ran, gives to the same query.
C6_SingleSnapshot == result # NoResponse => result \in seen

\* C7: a step in which track_shipment answers leaves the four tables as they
\* were, whatever the query and the outcome.
C7_TrackWritesNothing ==
    [][(result = NoResponse /\ result' # NoResponse) =>
           UNCHANGED <<receipts, labtests, reports, invoices>>]_vars

\* A call was answered on tables that hold a row of every kind.
C7_AnsweredOnFullStore ==
    /\ result # NoResponse
    /\ receipts # {} /\ labtests # {} /\ reports # {} /\ invoices # {}

DocumentsOf(type) ==
    {k \in DOMAIN result.documents : result.documents[k].type = type}

\* C9: the documents of a found result hold a report entry exactly when the
\* chain has a report whose final_status is APPROVED; there is at most one, it
\* names that report, its status is "approved" and download_available is true.
C9_ReportDocumentIffApproved ==
    Found =>
        LET report == result.chain.report
        IN  /\ DocumentsOf("report") # {} <=>
                   (report # {} /\ Only(report).final_status = "APPROVED")
            /\ Cardinality(DocumentsOf("report")) <= 1
            /\ \A k \in DocumentsOf("report") :
                   /\ result.documents[k].id = Only(report).id
                   /\ result.documents[k].status = "approved"
                   /\ result.documents[k].download_available = TRUE

\* A found result lists the report of its chain.
C9_ReportListed ==
    /\ Found
    /\ DocumentsOf("report") # {}
    /\ result.chain.invoice = {}

\* C10: the documents of a found result hold an invoice entry exactly when the
\* chain has an invoice whose status is ISSUED, SENT or PAID, with that status in
\* lower case; a DRAFT or CANCELLED invoice is never listed, and one that
\* update_invoice set to ISSUED is listed as "issued".
C10_InvoiceDocumentIffIssued ==
    Found =>
        LET invoice == result.chain.invoice
        IN  /\ DocumentsOf("invoice") # {} <=>
                   (invoice # {} /\ Only(invoice).status \in {"ISSUED", "SENT", "PAID"})
            /\ Cardinality(DocumentsOf("invoice")) <= 1
            /\ \A k \in DocumentsOf("invoice") :
                   /\ result.documents[k].id = Only(invoice).id
                   /\ result.documents[k].download_available = TRUE
                   /\ result.documents[k].status =
                          (CASE Only(invoice).status = "ISSUED" -> "issued"
                             [] Only(invoice).status = "SENT" -> "sent"
                             [] Only(invoice).status = "PAID" -> "paid")

\* An invoice created as DRAFT and then updated to ISSUED is listed as "issued".
C10_IssuedAfterUpdateListed ==
    /\ Found
    /\ \E k \in DocumentsOf("invoice") : result.documents[k].status = "issued"
    /\ \E i \in result.chain.invoice :
           i.status = "ISSUED" /\ i.updated_at > i.created_at

\* The rows of a set that were created first.
FirstCreated(rows) == {x \in rows : \A y \in rows : x.created_at <= y.created_at}

\* C11 as stated: a call whose query matches one row with a receipt at its root
\* finds a chain, and below the matched row the chain holds, at each level, the
\* child created first: the first lab test of the receipt, the first report of
\* that lab test, the first invoice of that report.
C11_FirstCreatedChild ==
    LET k == FirstMatch(result.query)
        kind == MatchedKind(k)
        chain == result.chain
    IN  (/\ result # NoResponse
         /\ Cardinality(MatchedBy(k, result.query)) = 1
         /\ RootsOf(k, result.query) # {}) =>
            /\ Found
            /\ kind = "receipt" =>
                   chain.labtest = FirstCreated(
                       {l \in labtests : l.receipt_id = Only(chain.receipt).id})
            /\ kind \in {"receipt", "labtest"} =>
                   chain.report = FirstCreated(
                       {p \in reports : \E l \in chain.labtest : p.labtest_id = l.id})
            /\ kind # "invoice" =>
                   chain.invoice = FirstCreated(
                       {i \in invoices : \E p \in chain.report : i.report_id = p.id})

\* C12 as stated: every call returns a result with found true or false, never
\* an error, whatever the query and whatever rows the tables hold.
C12_NeverAnError == result # NoResponse => result.status = "ok"

\* C14 as stated: the type of a found result names the kind of row the query
\* matched: receipt, labtest, report or invoice.
C14_TypeIsMatchedKind ==
    Found => result.type = MatchedKind(FirstMatch(result.query))

\* The lowest-numbered rule that matches q matches one lab test, report or
\* invoice whose references lead to no receipt.
OrphanMatch(q) ==
    LET k == FirstMatch(q)
    IN  /\ k \in 3..6
        /\ Cardinality(MatchedBy(k, q)) = 1
        /\ RootsOf(k, q) = {}

\* The locals of a call with query q after n of its statements, on the tables
\* as they are.
RECURSIVE AfterStatements(_, _)
AfterStatements(q, n) ==
    IF n = 0 THEN StartCall(q) ELSE Step(AfterStatements(q, n - 1), DB)

\* C13 as stated: a call whose query matches a row that leads to no receipt
\* does not fail, executes none of the lower-priority searches after the one
\* that matched, and reports nothing beyond what loaded (no chain is found).
C13_OrphanEndsResolution ==
    (result # NoResponse /\ OrphanMatch(result.query)) =>
        /\ result.status = "ok"
        /\ result.found = FALSE
        /\ \A n \in FirstMatch(result.query)..(Len(Probes) - 1) :
               ~Reads(AfterStatements(result.query, n))

\* C15: for a receipt with forward_to_central false and no lab test, the
\* timeline is received completed followed by the ten other stages, forwarded
\* first, all pending, and current_step is "received".
C15_ReceivedOnly ==
    \A r \in result.chain.receipt :
        (/\ Found
         /\ ~r.forward_to_central
         /\ ~ \E l \in labtests : l.receipt_id = r.id) =>
            /\ result.current_step = "received"
            /\ Len(result.timeline) = Len(TIMELINE_STEPS)
            /\ result.timeline[1] = TimelineStep("received", "completed", {r.created_at})
            /\ \A n \in 2..Len(TIMELINE_STEPS) :
                   result.timeline[n] = TimelineStep(TIMELINE_STEPS[n], "pending", {})

\* A receipt that is not forwarded and has no lab test was found.
C15_UnforwardedReceiptFound ==
    /\ Found
    /\ \E r \in result.chain.receipt :
           ~r.forward_to_central /\ ~ \E l \in labtests : l.receipt_id = r.id

\* C16: for a forwarded receipt whose lab test is IN_PROGRESS and has no
\* report, received, forwarded, lab_queued and in_progress are the completed
\* stages, the stage named completed is pending and current_step is
\* "in_progress".
C16_ForwardedInProgress ==
    (/\ Found
     /\ \E r \in result.chain.receipt : r.forward_to_central
     /\ \E l \in result.chain.labtest : l.test_status = "IN_PROGRESS"
     /\ result.chain.report = {}) =>
        /\ StepsOf(result.timeline, "completed") =
               {"received", "forwarded", "lab_queued", "in_progress"}
        /\ "completed" \in StepsOf(result.timeline, "pending")
        /\ result.current_step = "in_progress"

\* A forwarded receipt with a lab test IN_PROGRESS and no report was found.
C16_InProgressFound ==
    /\ Found
    /\ \E r \in result.chain.receipt : r.forward_to_central
    /\ \E l \in result.chain.labtest : l.test_status = "IN_PROGRESS"
    /\ result.chain.report = {}

\* C17: for a chain whose report is APPROVED and DISPATCHED and whose invoice
\* is SENT, the documents are one report entry with status "approved" followed
\* by one invoice entry with status "sent", and current_step is "invoiced".
C17_ApprovedDispatchedSent ==
    (/\ Found
     /\ \E p \in result.chain.report :
            p.final_status = "APPROVED" /\ p.comm_status = "DISPATCHED"
     /\ \E i \in result.chain.invoice : i.status = "SENT") =>
        /\ Len(result.documents) = 2
        /\ result.documents[1].type = "report"
        /\ result.documents[1].status = "approved"
        /\ result.documents[2].type = "invoice"
        /\ result.documents[2].status = "sent"
        /\ result.current_step = "invoiced"

\* Such a chain was found.
C17_FullChainFound ==
    /\ Found
    /\ \E p \in result.chain.report :
           p.final_status = "APPROVED" /\ p.comm_status = "DISPATCHED"
    /\ \E i \in result.chain.invoice : i.status = "SENT"

\* C18 as stated: communicated is completed in a timeline exactly when the
\* chain has a report whose comm_status is DISPATCHED or DELIVERED, whatever its
\* final_status.
C18_CommunicatedIffDispatched ==
    Found =>
        ("communicated" \in StepsOf(result.timeline, "completed") <=>
            \E p \in result.chain.report : p.comm_status \in {"DISPATCHED", "DELIVERED"})

\* C19: no timeline has central completed; an entry for central is pending
\* and has no timestamp.
C19_CentralNeverCompleted ==
    Found =>
        \A n \in DOMAIN result.timeline :
            result.timeline[n].step = "central" =>
                /\ result.timeline[n].status = "pending"
                /\ result.timeline[n].timestamp = {}

\* A forwarded receipt without lab test was found: central follows forwarded.
C19_CentralPendingAfterForwarded ==
    /\ Found
    /\ "forwarded" \in StepsOf(result.timeline, "completed")
    /\ "central" \in StepsOf(result.timeline, "pending")

\* C20: paid is completed exactly when the invoice of the chain is PAID, with
\* the invoice's paid_at as timestamp when that is set and its updated_at
\* otherwise; every completed entry has a timestamp and no pending entry has.
C20_PaidStageAndTimestamps ==
    Found =>
        LET tl == result.timeline
        IN  /\ "paid" \in StepsOf(tl, "completed") <=>
                   \E i \in result.chain.invoice : i.status = "PAID"
            /\ \A n \in DOMAIN tl : \A i \in result.chain.invoice :
                   (tl[n].step = "paid" /\ tl[n].status = "completed") =>
                       tl[n].timestamp =
                           (IF i.paid_at # {} THEN i.paid_at ELSE {i.updated_at})
            /\ \A n \in DOMAIN tl :
                   /\ tl[n].status = "completed" => Cardinality(tl[n].timestamp) = 1
                   /\ tl[n].status = "pending" => tl[n].timestamp = {}

\* A PAID invoice whose amount was updated after the payment was found: paid
\* carries paid_at, which is earlier than updated_at.
C20_PaidThenAmended ==
    /\ Found
    /\ "paid" \in StepsOf(result.timeline, "completed")
    /\ \E i \in result.chain.invoice : \E t \in i.paid_at : t < i.updated_at

-----------------------------------------------------------------------------
(* Referential integrity of the four tables.                               *)

\* C21: after any sequence of the CRUD operations, delete_receipt included,
\* every stored lab test refers to a stored receipt, every stored report to a
\* stored lab test and every stored invoice to a stored report.
C21_NoMissingAncestor ==
    /\ \A l \in labtests : \E r \in receipts : r.id = l.receipt_id
    /\ \A p \in reports : \E l \in labtests : l.id = p.labtest_id
    /\ \A i \in invoices : \E p \in reports : p.id = i.report_id

-----------------------------------------------------------------------------
(* create_invoice.                                                         *)

\* C22: a step stores a new invoice only when the report it names is stored
\* with final_status APPROVED in the state the step starts from, and it then
\* changes no other record; a request naming a missing or unapproved report
\* is no step at all.
C22_InvoiceOnlyForApprovedReport ==
    [][\A i \in {n \in invoices' : \A o \in invoices : o.id # n.id} :
           /\ \E p \in reports : p.id = i.report_id /\ p.final_status = "APPROVED"
           /\ invoices' = invoices \cup {i}
           /\ UNCHANGED <<receipts, labtests, reports>>]_vars

\* An invoice stored beside a report that create_invoice has to refuse.
C22_InvoicedBesideDraft ==
    /\ invoices # {}
    /\ \E p \in reports : p.final_status # "APPROVED"
                          /\ ~ \E i \in invoices : i.report_id = p.id

-----------------------------------------------------------------------------
(* Documents and the download endpoints.                                   *)

\* C25: on the tables a track_shipment call read, every entry of its documents
\* has download_available true and names a record whose download endpoint
\* answers 200, and the report and the invoice of the chain are listed exactly
\* when download_report, download_invoice answer 200 for them rather than 403
\* or 404.
C25_ListedIffDownloadGranted ==
    Found =>
        /\ \A k \in DOMAIN result.documents :
               LET doc == result.documents[k]
               IN  /\ doc.download_available = TRUE
                   /\ doc.type = "report" => download_report(doc.id, DB) = 200
                   /\ doc.type = "invoice" => download_invoice(doc.id, DB) = 200
        /\ \A p \in result.chain.report :
               download_report(p.id, DB) = 200 <=>
                   \E k \in DocumentsOf("report") : result.documents[k].id = p.id
        /\ \A i \in result.chain.invoice :
               download_invoice(i.id, DB) = 200 <=>
                   \E k \in DocumentsOf("invoice") : result.documents[k].id = i.id

\* A chain whose report is listed and whose invoice is refused with 403.
C25_ReportGrantedInvoiceRefused ==
    /\ Found
    /\ DocumentsOf("report") # {}
    /\ DocumentsOf("invoice") = {}
    /\ \E i \in result.chain.invoice : download_invoice(i.id, DB) = 403

-----------------------------------------------------------------------------
(* Invoices and the status of their reports.                               *)

\* C29: after any sequence of create_invoice, update_report and approve_report
\* calls every stored invoice belongs to a stored report whose final_status is
\* APPROVED, and no found result has invoiced completed without approved
\* completed.
C29_InvoicedReportStaysApproved ==
    /\ \A i \in invoices :
           \E p \in reports : p.id = i.report_id /\ p.final_status = "APPROVED"
    /\ Found =>
           ("invoiced" \in StepsOf(result.timeline, "completed")
                => "approved" \in StepsOf(result.timeline, "completed"))

\* C30: after any sequence of create_invoice and update_invoice calls a stored
\* invoice has paid_at set exactly when its status is PAID.
C30_PaidAtIffPaid ==
    \A i \in invoices : i.paid_at # {} <=> i.status = "PAID"

-----------------------------------------------------------------------------
(* Approval of reports.                                                    *)

\* C26: after any sequence of create_report, update_report and approve_report
\* calls every stored report whose final_status is APPROVED has a non-empty
\* approved_by.
C26_ApprovedHasApprover ==
    \A p \in reports : p.final_status = "APPROVED" => p.approved_by \notin {NULL, <<"">>}

-----------------------------------------------------------------------------
(* Queries for one intake.                                                 *)

\* The receipts the rows lead to that the first matching rule matches for q.
LeadsTo(q) == IF FirstMatch(q) = 0 THEN {} ELSE RootsOf(FirstMatch(q), q)

\* C28: when the query of a found result and another query lead to the same
\* receipt, and the call for the other query is answered on the same tables,
\* the two results have the same id, current_step, timeline and documents.
C28_SameIntakeSameResult ==
    Found =>
        \A q2 \in Queries :
            LET other == OnSnapshot(q2, DB)
            IN  (/\ LeadsTo(result.query) = result.chain.receipt
                 /\ LeadsTo(q2) = result.chain.receipt
                 /\ other.status = "ok") =>
                    /\ other.found
                    /\ other.id = result.id
                    /\ other.current_step = result.current_step
                    /\ other.timeline = result.timeline
                    /\ other.documents = result.documents

-----------------------------------------------------------------------------
(* One-time codes.                                                         *)

\* C27: between two store_otp calls for a key, verify_otp returns true for it
\* only when it has not returned true before and fewer than three wrong codes
\* were submitted: a code is consumed by its first successful verification, and
\* after three wrong codes every verify_otp returns false, the stored code
\* included.
C27_VerifiedOnceAndNotAfterThreeWrong ==
    [][\A phone \in Phones :
           otp_history'[phone].granted > otp_history[phone].granted =>
               /\ otp_history[phone].granted = 0
               /\ otp_history[phone].wrong < 3]_vars

\* The stored code was refused after three wrong codes and before it expired.
C27_StoredCodeRefused ==
    \E phone \in Phones :
        /\ otp_history[phone].wrong = 3
        /\ otp_history[phone].granted = 0
        /\ otp_storage[phone] = {}
        /\ now = 0

-----------------------------------------------------------------------------
(* Concurrent create_invoice calls.                                        *)

\* C23: after any number of create_invoice calls for one report, in any
\* interleaving of their reads and writes, at most one invoice is stored for
\* the report.
C23_OneInvoicePerReport ==
    \A i, j \in invoices : i.report_id = j.report_id => i = j

\* C24: the number a create_invoice call got from generate_invoice_number is
\* the number of no stored invoice, also when two calls run interleaved, so no
\* two stored invoices share an invoice_no and no call fails on a duplicate
\* number.
C24_GeneratedNumberIsFresh ==
    /\ \A i, j \in invoices : i.invoice_no = j.invoice_no => i = j
    /\ \A c \in Callers : creating[c].response # "500 IntegrityError"

====
